---- MODULE Spec2Model ----
(***************************************************************************)
(* A model of the snake game: the Snake object (game/snake.py), the apple  *)
(* factory Apple.spawn_random (game/apple.py) and one session of run_game  *)
(* (main.py).                                                              *)
(*                                                                         *)
(* The specifications share the variables:                                 *)
(*   SpecSnake  a Snake object driven by arbitrary calls of its methods;   *)
(*   SpecApple  Apple.spawn_random on arbitrary small grids and forbidden  *)
(*              cell sets;                                                 *)
(*   Spec       one session of run_game: the events of a frame, handled    *)
(*              one by one, and the tick that ends the frame;              *)
(*   SpecSpeed  the same for every speed and difficulty of the menu, with  *)
(*              the speed keys;                                            *)
(*   SpecMain   main's loop: sessions following one another;               *)
(*   SpecCoast  one session that is left without steering;                 *)
(*   SpecLoad   load_best_score on arbitrary small log files;              *)
(*   SpecRoundTrip  save_result calls followed by load_best_score.         *)
(* A cell and a direction are pairs <<x, y>>; a body is a sequence of      *)
(* cells, head first.                                                      *)
(***************************************************************************)
EXTENDS Integers, Sequences, FiniteSets

VARIABLES
    body,               \* Snake._body
    direction,          \* Snake._direction
    grow_pending,       \* Snake._grow_pending
    apple,              \* the Apple's cell (cell_x, cell_y); <<>> when there is none
    cols,               \* run_game's cols / spawn_random's cols
    rows,               \* run_game's rows / spawn_random's rows
    forbidden_cells,    \* spawn_random's argument (SpecApple)
    speed,              \* run_game's speed
    apples_per_speedup, \* run_game's apples_per_speedup
    running,            \* run_game's running
    game_over,          \* run_game's game_over
    paused,             \* run_game's paused
    score,              \* run_game's score
    best_score,         \* run_game's best_score
    player_name,        \* run_game's player_name
    results,            \* the lines of results.txt
    pc,                 \* where the program is: "snake", "apple", "log" (the
                        \* drivers of the Snake, spawn_random, the score log),
                        \* "game" (in run_game's loop), "menu" (run_game returned
                        \* False), "restart" (it returned True), "exit" (sys.exit)
    op,                 \* the last operation performed
    arg,                \* the argument of the last operation, as a pair
    result,             \* what the last check_self_collision() returned
    start,              \* the cell the Snake was constructed in
    moves,              \* SpecSnake: move() calls so far
    grown,              \* SpecSnake: the sum of the amounts passed to grow() so far
    turned,             \* SpecSnake: some change_direction call changed the heading
    late_grow,          \* SpecSnake: some grow(amount > 0) came after a move()
    move_dir,           \* Spec: the direction the last move() of the session used
    spawned,            \* Spec: the last step (re)spawned the apple
    appended,           \* the scores passed to save_result so far
    ramp_base,          \* the session's initial speed while no speed key has
                        \* been pressed in it; 0 once one has (and outside
                        \* sessions)
    menu,               \* SpecMain: main's <<base_speed, difficulty>>, what
                        \* run_menu returned last; <<>> where main is not
                        \* modelled
    coasting,           \* SpecCoast: "no" while direction and pause keys may
                        \* arrive; "initial" or "later" once none arrives any
                        \* more, from run_game's first frame or from a later one
    coast_ticks         \* SpecCoast: the ticks begun in Playing since then

snake_vars == <<body, direction, grow_pending>>
apple_vars == <<apple, cols, rows, forbidden_cells>>
game_vars == <<speed, apples_per_speedup, running, game_over, paused, score,
               best_score, player_name, results>>
ghost_vars == <<op, arg, result, start, moves, grown, turned, late_grow,
                move_dir, spawned, appended, ramp_base, coasting,
                coast_ticks>>
vars == <<snake_vars, apple_vars, game_vars, menu, pc, ghost_vars>>

----------------------------------------------------------------------------
(* Bounds of the model. *)

\* The grid of a session (main.py sets 15 x 15; the model explores a small one).
GRID_COLS == 3
GRID_ROWS == 2
\* SpecSnake: how many move() calls a behaviour makes.
MaxMoves == 3
\* SpecSnake: the largest sum of grow() amounts of a behaviour.
MaxGrown == 3
\* SpecApple: the largest cols and rows.
MaxDim == 2
\* SpecLoad: the lines of a log file read by load_best_score.
MaxLines == 3
\* SpecRoundTrip: the characters typed into the menu's name field (the menu
\* takes up to name_limit) and the save_result calls made.
MaxNameLen == 2
MaxSaves == 2

----------------------------------------------------------------------------
(* Cells and directions. *)

Add(c, d) == <<c[1] + d[1], c[2] + d[2]>>
Neg(d) == <<-d[1], -d[2]>>
Range(s) == {s[i] : i \in 1..Len(s)}

\* The four directions the session's keys give (main.py 371-378).
KeyDirections == {<<0, -1>>, <<0, 1>>, <<-1, 0>>, <<1, 0>>}
\* What SpecSnake passes to change_direction: the key directions, the zero
\* vector and one vector that is no unit vector.
DirectionInputs == KeyDirections \cup {<<0, 0>>, <<1, 1>>}
\* Where SpecSnake constructs the Snake.
StartCells == {<<5, 5>>, <<0, 0>>}

----------------------------------------------------------------------------
(* Snake (game/snake.py). *)

\* A faulty variant: change_direction without its test for the inverse.
change_direction_noreverse(cur, dx, dy) ==
    IF dx = 0 /\ dy = 0 THEN cur ELSE <<dx, dy>>

\* A faulty variant: the zero vector taken as a heading.
change_direction_zero_taken(cur, dx, dy) ==
    IF <<dx, dy>> = <<-cur[1], -cur[2]>> THEN cur ELSE <<dx, dy>>

\* change_direction: the new value of _direction.
change_direction(cur, dx, dy) ==
    IF <<dx, dy>> = <<-cur[1], -cur[2]>> THEN cur
    ELSE IF dx = 0 /\ dy = 0 THEN cur
    ELSE <<dx, dy>>

\* move: the new head.
new_head(b, d) == <<b[1][1] + d[1], b[1][2] + d[2]>>

\* Faulty variants: a move that always drops the tail, and one that never does.
move_body_always_pop(b, d, gp) ==
    SubSeq(<<new_head(b, d)>> \o b, 1, Len(b))

move_body_never_pop(b, d, gp) ==
    <<new_head(b, d)>> \o b

\* A faulty variant: a move that drops the old head, not the tail.
move_body_drop_neck(b, d, gp) ==
    IF gp > 0 THEN <<new_head(b, d)>> \o b
    ELSE <<new_head(b, d)>> \o Tail(b)

\* move: the new value of _body (insert(0, new_head), then pop() unless growing).
move_body(b, d, gp) ==
    LET inserted == <<new_head(b, d)>> \o b
    IN  IF gp > 0 THEN inserted
        ELSE SubSeq(inserted, 1, Len(inserted) - 1)

\* A faulty variant: the counter decremented by every move.
move_grow_pending_always(gp) == gp - 1

\* move: the new value of _grow_pending.
move_grow_pending(gp) == IF gp > 0 THEN gp - 1 ELSE gp

\* A faulty variant: one segment more than asked for.
grow_one_more(gp, amount) == gp + amount + 1

\* grow: the new value of _grow_pending.
grow(gp, amount) == gp + amount

head_cell(b) == b[1]

body_cells(b) == b

\* A faulty variant: the head looked up in the whole body, itself included.
check_self_collision_whole(b) ==
    \E i \in 1..Len(b) : b[i] = b[1]

\* check_self_collision: head in self._body[1:].
check_self_collision(b) ==
    LET head == b[1]
        rest == SubSeq(b, 2, Len(b))
    IN  \E i \in 1..Len(rest) : rest[i] = head

----------------------------------------------------------------------------
(* Apple.spawn_random (game/apple.py). *)

\* The grid's cells in the order of the comprehension: x outer, y inner.
grid_cells(c, r) == [k \in 1..(c * r) |-> <<(k - 1) \div r, (k - 1) % r>>]

\* A faulty variant: the comprehension without its filter.
free_cells_unfiltered(c, r, forbidden) == grid_cells(c, r)

\* free_cells: the grid's cells that are not forbidden, in that order.
free_cells(c, r, forbidden) ==
    LET Free(cell) == cell \notin forbidden
    IN  SelectSeq(grid_cells(c, r), Free)

\* A faulty variant: no fallback, so no result when no cell is free.
spawn_random_nofallback(c, r, forbidden) ==
    Range(free_cells(c, r, forbidden))

\* The cells spawn_random may return: (0,0) when no cell is free, else any
\* element of free_cells (random.choice).
spawn_random(c, r, forbidden) ==
    LET free == free_cells(c, r, forbidden)
    IN  IF Len(free) = 0 THEN {<<0, 0>>} ELSE Range(free)

----------------------------------------------------------------------------
(* SpecSnake: a Snake object and calls of its methods. *)

\* The values the variables of the other specifications keep.
NoApple == apple = <<>> /\ cols = 0 /\ rows = 0 /\ forbidden_cells = {}
NoGame ==
    /\ speed = 0 /\ apples_per_speedup = 0 /\ running = FALSE
    /\ game_over = FALSE /\ paused = FALSE /\ score = 0 /\ best_score = 0
    /\ player_name = <<>> /\ results = <<>>
    /\ move_dir = <<0, 0>> /\ spawned = FALSE /\ appended = {}
    /\ ramp_base = 0
NoSnakeHistory ==
    moves = 0 /\ grown = 0 /\ turned = FALSE /\ late_grow = FALSE
NoMain == menu = <<>>
NoCoast == coasting = "no" /\ coast_ticks = 0

\* Snake.__init__(start_x, start_y, cell_size).
InitSnake ==
    /\ pc = "snake"
    /\ start \in StartCells
    /\ body = <<start>>
    /\ direction = <<1, 0>>
    /\ grow_pending = 0
    /\ op = "init" /\ arg = <<0, 0>> /\ result = FALSE
    /\ NoSnakeHistory
    /\ NoApple /\ NoGame /\ NoMain /\ NoCoast

SnakeChangeDirection(d) ==
    /\ pc = "snake"
    /\ direction' = change_direction(direction, d[1], d[2])
    /\ turned' = (turned \/ direction' # direction)
    /\ op' = "change_direction" /\ arg' = d
    /\ UNCHANGED <<body, grow_pending, result, start, moves, grown, late_grow,
                   move_dir, spawned, appended, ramp_base, menu,
                   coasting, coast_ticks, apple_vars,
                   game_vars,
                   pc>>

SnakeMove ==
    /\ pc = "snake"
    /\ moves < MaxMoves
    /\ body' = move_body(body, direction, grow_pending)
    /\ grow_pending' = move_grow_pending(grow_pending)
    /\ moves' = moves + 1
    /\ op' = "move" /\ arg' = <<0, 0>>
    /\ UNCHANGED <<direction, result, start, grown, turned, late_grow,
                   move_dir, spawned, appended, ramp_base, menu,
                   coasting, coast_ticks, apple_vars,
                   game_vars,
                   pc>>

SnakeGrow(amount) ==
    /\ pc = "snake"
    /\ grown + amount <= MaxGrown
    /\ grow_pending' = grow(grow_pending, amount)
    /\ grown' = grown + amount
    /\ late_grow' = (late_grow \/ (amount > 0 /\ moves > 0))
    /\ op' = "grow" /\ arg' = <<amount, 0>>
    /\ UNCHANGED <<body, direction, result, start, moves, turned,
                   move_dir, spawned, appended, ramp_base, menu,
                   coasting, coast_ticks, apple_vars,
                   game_vars,
                   pc>>

SnakeCheckSelfCollision ==
    /\ pc = "snake"
    /\ result' = check_self_collision(body)
    /\ op' = "check_self_collision" /\ arg' = <<0, 0>>
    /\ UNCHANGED <<snake_vars, start, moves, grown, turned, late_grow,
                   move_dir, spawned, appended, ramp_base, menu,
                   coasting, coast_ticks, apple_vars,
                   game_vars,
                   pc>>

NextSnake ==
    \/ \E d \in DirectionInputs : SnakeChangeDirection(d)
    \/ SnakeMove
    \/ \E amount \in 0..MaxGrown : SnakeGrow(amount)
    \/ SnakeCheckSelfCollision

SpecSnake == InitSnake /\ [][NextSnake]_vars

----------------------------------------------------------------------------
(* SpecApple: Apple.spawn_random on small grids. *)

NoSnake ==
    /\ body = <<>> /\ direction = <<0, 0>> /\ grow_pending = 0
    /\ start = <<0, 0>> /\ result = FALSE /\ NoSnakeHistory

\* The cells a forbidden list is drawn from: those of the largest grid, so
\* that a smaller grid also sees forbidden cells outside it.
ForbiddenUniverse == (0..(MaxDim - 1)) \X (0..(MaxDim - 1))

InitApple ==
    /\ pc = "apple"
    /\ cols \in 1..MaxDim
    /\ rows \in 1..MaxDim
    /\ forbidden_cells \in SUBSET ForbiddenUniverse
    /\ apple = <<>>
    /\ op = "init" /\ arg = <<0, 0>>
    /\ NoSnake /\ NoGame /\ NoMain /\ NoCoast

\* apple = Apple.spawn_random(cols, rows, cell_size, forbidden_cells).cell()
AppleSpawn ==
    /\ pc = "apple"
    /\ apple' \in spawn_random(cols, rows, forbidden_cells)
    /\ op' = "spawn_random" /\ arg' = <<0, 0>>
    /\ UNCHANGED <<snake_vars, cols, rows, forbidden_cells, game_vars, pc,
                   result, start, moves, grown, turned, late_grow, move_dir,
                   spawned, appended, ramp_base, menu, coasting,
                   coast_ticks>>

NextApple == AppleSpawn

SpecApple == InitApple /\ [][NextApple]_vars

----------------------------------------------------------------------------
(* The score log (main.py: save_result, load_best_score). *)
(* A text is a sequence of characters (one-character strings); "now" stands *)
(* for the 19 characters of the timestamp, none of which is ';' or a space. *)

Digits == <<"0", "1", "2", "3", "4", "5", "6", "7", "8", "9">>
DigitChars == Range(Digits)
DigitValue(ch) == (CHOOSE k \in 1..10 : Digits[k] = ch) - 1

\* str(n) for an integer n.
RECURSIVE str_nat(_)
str_nat(n) == IF n < 10 THEN <<Digits[n + 1]>>
              ELSE str_nat(n \div 10) \o <<Digits[(n % 10) + 1]>>

str(n) == IF n < 0 THEN <<"-">> \o str_nat(-n) ELSE str_nat(n)

\* text.strip(), the model's only whitespace being the space.
RECURSIVE strip_left(_)
strip_left(t) == IF Len(t) > 0 /\ t[1] = " " THEN strip_left(Tail(t)) ELSE t

RECURSIVE strip_right(_)
strip_right(t) ==
    IF Len(t) > 0 /\ t[Len(t)] = " " THEN strip_right(SubSeq(t, 1, Len(t) - 1))
    ELSE t

strip(t) == strip_right(strip_left(t))

\* text.split(";"): the fields between the ';', at least one.
RECURSIVE split_from(_, _, _)
split_from(t, i, field) ==
    IF i > Len(t) THEN <<field>>
    ELSE IF t[i] = ";" THEN <<field>> \o split_from(t, i + 1, <<>>)
    ELSE split_from(t, i + 1, Append(field, t[i]))

split(t) == split_from(t, 1, <<>>)

\* int(text): whether it parses (spaces around, an optional sign, digits).
unsigned(t) == IF Len(t) > 0 /\ t[1] \in {"+", "-"} THEN Tail(t) ELSE t

is_int(text) ==
    LET t == unsigned(strip(text))
    IN  Len(t) > 0 /\ \A k \in 1..Len(t) : t[k] \in DigitChars

RECURSIVE nat_value(_, _)
nat_value(t, acc) ==
    IF Len(t) = 0 THEN acc
    ELSE nat_value(Tail(t), 10 * acc + DigitValue(t[1]))

\* int(text): its value, for a text that parses.
int(text) ==
    LET t == strip(text)
    IN  IF Len(t) > 0 /\ t[1] = "-" THEN -nat_value(Tail(t), 0)
        ELSE nat_value(unsigned(t), 0)

\* save_result: the log with the line f"{now};{player_name};{score}" appended.
save_result(lines, name, s) ==
    Append(lines, <<"now", ";">> \o name \o <<";">> \o str(s))

\* load_best_score: whether a line's fields give a score.
line_counts(parts) == Len(parts) >= 3 /\ is_int(parts[3])

RECURSIVE load_best_score_from(_, _, _)
load_best_score_from(lines, i, best) ==
    IF i > Len(lines) THEN best
    ELSE LET parts == split(strip(lines[i]))
             better == line_counts(parts) /\ int(parts[3]) > best
         IN  load_best_score_from(lines, i + 1,
                                  IF better THEN int(parts[3]) ELSE best)

\* load_best_score() for a file with these lines (none: a missing file).
load_best_score(lines) == load_best_score_from(lines, 1, 0)

----------------------------------------------------------------------------
(* Spec: one session of run_game (main.py). *)

min_speed == 3
max_speed == 30
\* What run_menu returns when the player only presses start.
selected_speed == 10
default_difficulty == "normal"
default_player_name == <<"P", "l", "a", "y", "e", "r">>

Max(a, b) == IF a >= b THEN a ELSE b
Min(a, b) == IF a <= b THEN a ELSE b

\* A faulty variant: the menu's speed whatever the difficulty.
initial_speed_base_only(difficulty, base_speed) == base_speed

\* run_game's difficulty presets.
initial_speed(difficulty, base_speed) ==
    IF difficulty = "easy" THEN Max(5, base_speed)
    ELSE IF difficulty = "hard" THEN Max(15, base_speed)
    ELSE base_speed

initial_apples_per_speedup(difficulty) ==
    IF difficulty = "easy" THEN 7
    ELSE IF difficulty = "hard" THEN 4
    ELSE 5

NoForbidden == forbidden_cells = {}

\* run_menu's bounds of the selected speed and its difficulties (positions
\* counted from 1).
menu_min_speed == 3
menu_max_speed == 25
difficulties == <<"easy", "normal", "hard">>
DifficultyIndex(difficulty) ==
    CHOOSE i \in 1..Len(difficulties) : difficulties[i] = difficulty

\* run_game up to its loop, for what run_menu returned, on a grid of c x r.
InitSession(name, base_speed, difficulty, c, r) ==
    /\ pc = "game"
    /\ player_name = name
    /\ speed = initial_speed(difficulty, base_speed)
    /\ ramp_base = speed
    /\ apples_per_speedup = initial_apples_per_speedup(difficulty)
    /\ cols = c
    /\ rows = r
    /\ start = <<cols \div 2, rows \div 2>>
    /\ body = <<start>>
    /\ direction = <<1, 0>>
    /\ grow_pending = 0
    /\ apple \in spawn_random(cols, rows, Range(body_cells(body)))
    /\ running = TRUE
    /\ game_over = FALSE
    /\ paused = FALSE
    /\ score = 0
    /\ results = <<>> /\ appended = {}
    /\ best_score = load_best_score(results)
    /\ op = "init" /\ arg = <<base_speed, DifficultyIndex(difficulty)>>
    /\ result = FALSE
    /\ move_dir = <<0, 0>> /\ spawned = TRUE
    /\ NoSnakeHistory /\ NoForbidden /\ NoCoast

\* run_game up to its loop on the model's grid.
InitGame(name, base_speed, difficulty) ==
    InitSession(name, base_speed, difficulty, GRID_COLS, GRID_ROWS)

Init ==
    /\ InitGame(default_player_name, selected_speed, default_difficulty)
    /\ NoMain

\* The variables no event handler and no tick changes.
session_constants == <<cols, rows, forbidden_cells, apples_per_speedup,
                       player_name, start, menu,
                       result, moves, grown, turned, late_grow, coasting>>

\* The same with ramp_base, which only the speed keys change, and
\* coast_ticks, which only the tick changes.
session_frame == <<session_constants, ramp_base, coast_ticks>>

\* A faulty variant: direction keys taken while paused.
direction_keys_taken_unless_over(over, p) == ~over

\* Whether the event loop passes a direction key to the snake.
direction_keys_taken(over, p) == ~over /\ ~p

\* A direction key (W/S/A/D or an arrow) in the event loop.
KeyDirection(d) ==
    /\ pc = "game"
    /\ direction' = IF direction_keys_taken(game_over, paused)
                    THEN change_direction(direction, d[1], d[2])
                    ELSE direction
    /\ op' = "key_direction" /\ arg' = <<0, 0>>
    /\ spawned' = FALSE
    /\ UNCHANGED <<body, grow_pending, apple, speed, running, game_over,
                   paused, score, best_score, results, appended, pc,
                   move_dir,
                   session_frame>>

\* A faulty variant: the P key taken after game over too.
pause_key_always(over, p) == ~p

\* The P key: the new value of paused.
pause_key(over, p) == IF ~over THEN ~p ELSE p

\* The P key in the event loop.
KeyPause ==
    /\ pc = "game"
    /\ paused' = pause_key(game_over, paused)
    /\ op' = "key_pause" /\ arg' = <<0, 0>>
    /\ spawned' = FALSE
    /\ UNCHANGED <<snake_vars, apple, speed, running, game_over, score,
                   best_score, results, appended, pc, move_dir,
                   session_frame>>

\* The ESC key in the event loop.
KeyEscape ==
    /\ pc = "game"
    /\ running' = FALSE
    /\ op' = "key_escape" /\ arg' = <<0, 0>>
    /\ spawned' = FALSE
    /\ UNCHANGED <<snake_vars, apple, speed, game_over, paused, score,
                   best_score, results, appended, pc, move_dir,
                   session_frame>>

\* A click on the quit button of the game-over screen.
ClickQuit ==
    /\ pc = "game"
    /\ game_over
    /\ running' = FALSE
    /\ op' = "click_quit" /\ arg' = <<0, 0>>
    /\ spawned' = FALSE
    /\ UNCHANGED <<snake_vars, apple, speed, game_over, paused, score,
                   best_score, results, appended, pc, move_dir,
                   session_frame>>

\* A click on the restart button of the game-over screen: run_game returns
\* True (clicks are looked at only when game_over).
ClickRestart ==
    /\ pc = "game"
    /\ game_over
    /\ pc' = "restart"
    /\ op' = "click_restart" /\ arg' = <<0, 0>>
    /\ spawned' = FALSE
    /\ UNCHANGED <<snake_vars, apple, speed, running, game_over, paused,
                   score, best_score, results, appended, move_dir,
                   session_frame>>

\* A faulty variant: the speed-up key without its clamp.
speed_plus_unclamped(sp) == sp + 1

\* The +, = and keypad + keys: the new speed.
speed_plus(sp) == Min(max_speed, sp + 1)

\* The -, _ and keypad - keys: the new speed.
speed_minus(sp) == Max(min_speed, sp - 1)

\* A speed-up key in the event loop.
KeyPlus ==
    /\ pc = "game"
    /\ speed' = speed_plus(speed)
    /\ ramp_base' = 0
    /\ op' = "key_plus" /\ arg' = <<0, 0>>
    /\ spawned' = FALSE
    /\ UNCHANGED <<snake_vars, apple, running, game_over, paused, score,
                   best_score, results, appended, pc, move_dir,
                   session_constants, coast_ticks>>

\* A slow-down key in the event loop.
KeyMinus ==
    /\ pc = "game"
    /\ speed' = speed_minus(speed)
    /\ ramp_base' = 0
    /\ op' = "key_minus" /\ arg' = <<0, 0>>
    /\ spawned' = FALSE
    /\ UNCHANGED <<snake_vars, apple, running, game_over, paused, score,
                   best_score, results, appended, pc, move_dir,
                   session_constants, coast_ticks>>

\* pygame.QUIT in the event loop: sys.exit().
QuitEvent ==
    /\ pc = "game"
    /\ pc' = "exit"
    /\ op' = "quit" /\ arg' = <<0, 0>>
    /\ spawned' = FALSE
    /\ UNCHANGED <<snake_vars, apple, speed, running, game_over, paused,
                   score, best_score, results, appended, move_dir,
                   session_frame>>

\* A faulty variant: the bounds test with <= for <.
out_of_bounds_inclusive(head, c, r) ==
    ~(0 <= head[1] /\ head[1] <= c /\ 0 <= head[2] /\ head[2] <= r)

\* A faulty variant: the bounds test on the columns alone.
out_of_bounds_columns_only(head, c, r) == ~(0 <= head[1] /\ head[1] < c)

\* The tick's bounds test on the head.
out_of_bounds(head, c, r) ==
    ~(0 <= head[1] /\ head[1] < c /\ 0 <= head[2] /\ head[2] < r)

\* A faulty variant: the self-collision test against the neck alone.
tick_game_over_neck_only(b, c, r) ==
    \/ out_of_bounds(head_cell(b), c, r)
    \/ (Len(b) >= 2 /\ b[2] = b[1])

\* A faulty variant: the bounds test alone.
tick_game_over_bounds_only(b, c, r) == out_of_bounds(head_cell(b), c, r)

\* The tick's game_over after the bounds test and the self-collision test.
tick_game_over(b, c, r) ==
    LET after_bounds == out_of_bounds(head_cell(b), c, r)
    IN  IF ~after_bounds /\ check_self_collision(b) THEN TRUE
        ELSE after_bounds

\* A faulty variant: the apple test without "not game_over".
tick_eats_when_over(over, b, a) == head_cell(b) = a

\* The tick's test for an eaten apple.
tick_eats(over, b, a) == ~over /\ head_cell(b) = a

\* A faulty variant: the body without its head.
respawn_forbidden_no_head(b) == Range(Tail(body_cells(b)))

\* The cells the tick forbids to the new apple.
respawn_forbidden(b) == Range(body_cells(b))

\* A faulty variant: a record written by every tick.
tick_saves_always(over) == TRUE

\* Whether the tick writes the session's record.
tick_saves(over) == over

\* A faulty variant: every apple speeds the game up.
speed_after_every_apple(sp, sc, per) == Min(max_speed, sp + 1)

\* The tick's new speed after an eaten apple.
speed_after_apple(sp, sc, per) ==
    IF sc % per = 0 THEN Min(max_speed, sp + 1) ELSE sp

\* The frame after its event loop: the tick (when playing), the drawing, and
\* the loop's test of running.
Tick ==
    /\ pc = "game"
    /\ IF ~game_over /\ ~paused
       THEN LET moved == move_body(body, direction, grow_pending)
                pending == move_grow_pending(grow_pending)
                over == tick_game_over(moved, cols, rows)
                eats == tick_eats(over, moved, apple)
                new_score == IF eats THEN score + 1 ELSE score
            IN  /\ body' = moved
                /\ game_over' = over
                /\ score' = new_score
                /\ grow_pending' = IF eats THEN grow(pending, 1) ELSE pending
                /\ apple' \in IF eats
                              THEN spawn_random(cols, rows,
                                                respawn_forbidden(moved))
                              ELSE {apple}
                /\ speed' = IF eats
                            THEN speed_after_apple(speed, new_score,
                                                   apples_per_speedup)
                            ELSE speed
                /\ results' = IF tick_saves(over)
                              THEN save_result(results, player_name, new_score)
                              ELSE results
                /\ appended' = IF tick_saves(over)
                                THEN appended \cup {new_score}
                                ELSE appended
                /\ best_score' = IF over /\ new_score > best_score
                                 THEN new_score ELSE best_score
                /\ move_dir' = direction
                /\ spawned' = eats
       ELSE /\ UNCHANGED <<body, grow_pending, apple, speed, game_over, score,
                           best_score, results, appended, move_dir>>
            /\ spawned' = FALSE
    /\ pc' = IF running THEN "game" ELSE "menu"
    /\ op' = "tick" /\ arg' = <<0, 0>>
    /\ coast_ticks' = IF coasting # "no" /\ ~game_over /\ ~paused
                      THEN coast_ticks + 1
                      ELSE coast_ticks
    /\ UNCHANGED <<direction, running, paused, session_constants, ramp_base>>

Next ==
    \/ \E d \in KeyDirections : KeyDirection(d)
    \/ KeyPause
    \/ KeyEscape
    \/ ClickQuit
    \/ ClickRestart
    \/ QuitEvent
    \/ Tick

Spec == Init /\ [][Next]_vars

----------------------------------------------------------------------------
(* SpecSpeed: one session for every speed and difficulty run_menu can      *)
(* return, with the speed keys, on a grid of 2 x 2: the smallest on which  *)
(* a session reaches a score of 4, the speed-up interval of "hard".        *)

\* The speeds run_menu can return.
MenuSpeeds == menu_min_speed..menu_max_speed

InitSpeed ==
    \E base_speed \in MenuSpeeds, difficulty \in Range(difficulties) :
        /\ InitSession(default_player_name, base_speed, difficulty, 2, 2)
        /\ NoMain

NextSpeed ==
    \/ \E d \in KeyDirections : KeyDirection(d)
    \/ KeyPause
    \/ KeyEscape
    \/ KeyPlus
    \/ KeyMinus
    \/ ClickQuit
    \/ ClickRestart
    \/ QuitEvent
    \/ Tick

SpecSpeed == InitSpeed /\ [][NextSpeed]_vars

----------------------------------------------------------------------------
(* SpecMain: main's loop over run_menu and run_game, on a grid of 2 x 2:   *)
(* sessions follow one another by restart or through the menu, the score   *)
(* log growing by a line per session that reaches game over.                *)

\* What run_menu returns in SpecMain: its defaults, or "hard" at the lowest
\* speed.
MenuChoices == {<<selected_speed, "normal">>, <<menu_min_speed, "hard">>}

InitMain ==
    \E choice \in MenuChoices :
        /\ InitSession(default_player_name, choice[1], choice[2], 2, 2)
        /\ menu = choice

\* A faulty variant: the ended session's speed passed as the base speed.
restart_base_speed_carried(chosen_speed, sp) == sp

\* main: the base_speed it passes to run_game again is the one run_menu
\* returned, whatever speed the ended session had.
restart_base_speed(chosen_speed, sp) == chosen_speed

\* run_game called again, up to its loop: its locals set anew on the same
\* grid, best_score read from the log.
run_game_start(name, base_speed, difficulty) ==
    /\ pc' = "game"
    /\ player_name' = name
    /\ speed' = initial_speed(difficulty, base_speed)
    /\ ramp_base' = speed'
    /\ apples_per_speedup' = initial_apples_per_speedup(difficulty)
    /\ start' = <<cols \div 2, rows \div 2>>
    /\ body' = <<start'>>
    /\ direction' = <<1, 0>>
    /\ grow_pending' = 0
    /\ apple' \in spawn_random(cols, rows, Range(body_cells(body')))
    /\ running' = TRUE
    /\ game_over' = FALSE
    /\ paused' = FALSE
    /\ score' = 0
    /\ best_score' = load_best_score(results)
    /\ op' = "run_game" /\ arg' = <<base_speed, DifficultyIndex(difficulty)>>
    /\ move_dir' = <<0, 0>> /\ spawned' = TRUE
    /\ UNCHANGED <<cols, rows, forbidden_cells, results, appended, result,
                   moves, grown, turned, late_grow, coasting, coast_ticks>>

\* main: run_game returned True, and is called again with the same arguments.
RestartGame ==
    /\ pc = "restart"
    /\ Len(results) < MaxSaves
    /\ run_game_start(player_name, restart_base_speed(menu[1], speed), menu[2])
    /\ UNCHANGED menu

\* main: run_game returned False; run_menu returns and run_game is called
\* with what it returned.
MenuStart ==
    /\ pc = "menu"
    /\ Len(results) < MaxSaves
    /\ \E choice \in MenuChoices :
           /\ run_game_start(default_player_name, choice[1], choice[2])
           /\ menu' = choice

NextMain ==
    \/ \E d \in KeyDirections : KeyDirection(d)
    \/ KeyPause
    \/ KeyEscape
    \/ ClickQuit
    \/ ClickRestart
    \/ QuitEvent
    \/ Tick
    \/ RestartGame
    \/ MenuStart

SpecMain == InitMain /\ [][NextMain]_vars

----------------------------------------------------------------------------
(* SpecCoast: one session in which, from some frame on, no direction key   *)
(* and no pause key arrives any more.                                      *)

InitCoast ==
    /\ InitGame(default_player_name, selected_speed, default_difficulty)
    /\ NoMain

\* From here on no direction or pause key arrives.
Coast ==
    /\ pc = "game"
    /\ coasting = "no"
    /\ ~game_over /\ ~paused
    /\ coasting' = IF op = "init" THEN "initial" ELSE "later"
    /\ UNCHANGED <<snake_vars, apple_vars, game_vars, menu, pc, op, arg,
                   result, start, moves, grown, turned, late_grow, move_dir,
                   spawned, appended, ramp_base, coast_ticks>>

NextCoast ==
    \/ coasting = "no" /\ \E d \in KeyDirections : KeyDirection(d)
    \/ coasting = "no" /\ KeyPause
    \/ Coast
    \/ coasting # "initial" /\ KeyEscape
    \/ coasting # "initial" /\ ClickQuit
    \/ coasting # "initial" /\ ClickRestart
    \/ coasting # "initial" /\ QuitEvent
    \/ Tick

SpecCoast == InitCoast /\ [][NextCoast]_vars

----------------------------------------------------------------------------
(* SpecLoad: load_best_score() on arbitrary small log files.               *)
(* SpecRoundTrip: save_result calls with the names run_menu can return,     *)
(* then load_best_score().                                                  *)

\* No session is running.
NoSession ==
    /\ speed = 0 /\ apples_per_speedup = 0 /\ running = FALSE
    /\ game_over = FALSE /\ paused = FALSE
    /\ move_dir = <<0, 0>> /\ spawned = FALSE

\* Lines a log file is made of: records, and lines that are not records.
LineAlice5 == <<"now", ";", "A", "l", "i", "c", "e", ";", "5">>
LineBob9 == <<"now", ";", "B", "o", "b", ";", "9">>
LineTwelve == <<"now", ";", "a", ";", "1", "2">>
LineSpaces == <<" ", "now", ";", "a", ";", " ", "6", " ">>
LineNegative == <<"now", ";", "a", ";", "-", "4">>
LineTwoFields == <<"now", ";", "a">>
LineNotInt == <<"now", ";", "a", ";", "x">>
LineFourFields == <<"now", ";", "a", ";", "7", ";", "3">>
LineFourNotInt == <<"now", ";", "a", ";", "b", ";", "2", "0">>
LineBlank == <<>>

SampleLines ==
    {LineAlice5, LineBob9, LineTwelve, LineSpaces, LineNegative,
     LineTwoFields, LineNotInt, LineFourFields, LineFourNotInt, LineBlank}

\* The log files of up to MaxLines lines (no line: a missing or empty file).
LogFiles == UNION {[1..n -> SampleLines] : n \in 0..MaxLines}

InitLoad ==
    /\ pc = "log"
    /\ results \in LogFiles
    /\ best_score = 0 /\ score = 0 /\ player_name = <<>> /\ appended = {}
    /\ ramp_base = 0
    /\ op = "init" /\ arg = <<0, 0>>
    /\ NoSession /\ NoSnake /\ NoApple /\ NoMain /\ NoCoast

\* best_score = load_best_score().
LogLoad ==
    /\ pc = "log"
    /\ best_score' = load_best_score(results)
    /\ op' = "load" /\ arg' = <<0, 0>>
    /\ UNCHANGED <<snake_vars, apple_vars, speed, apples_per_speedup, running,
                   game_over, paused, score, player_name, results, pc,
                   result, start, moves, grown, turned, late_grow, move_dir,
                   spawned, appended, ramp_base, menu, coasting,
                   coast_ticks>>

NextLoad == LogLoad

SpecLoad == InitLoad /\ [][NextLoad]_vars

\* run_menu: the name field takes a printable character while it holds
\* fewer than name_limit.
name_limit == 12

\* Characters the name field takes (all printable).
NameChars == {"a", "9", ";"}

\* What the player typed into the name field.
TypedNames == UNION {[1..n -> NameChars] : n \in 0..Min(MaxNameLen, name_limit)}

\* run_menu: the player name returned at the start click.
menu_player_name(typed) ==
    IF typed = <<>> THEN default_player_name ELSE typed

\* The scores a session ends with.
ScoreInputs == {0, 1, 12}

InitRoundTrip ==
    /\ pc = "log"
    /\ results = <<>>
    /\ best_score = 0 /\ score = 0 /\ player_name = <<>> /\ appended = {}
    /\ ramp_base = 0
    /\ op = "init" /\ arg = <<0, 0>>
    /\ NoSession /\ NoSnake /\ NoApple /\ NoMain /\ NoCoast

\* save_result(player_name, score), as run_game calls it when a session of
\* a player named in the menu ends.
LogSave(typed, s) ==
    /\ pc = "log"
    /\ Len(results) < MaxSaves
    /\ player_name' = menu_player_name(typed)
    /\ score' = s
    /\ results' = save_result(results, player_name', s)
    /\ appended' = appended \cup {s}
    /\ op' = "save" /\ arg' = <<0, 0>>
    /\ UNCHANGED <<snake_vars, apple_vars, speed, apples_per_speedup, running,
                   game_over, paused, best_score, pc,
                   result, start, moves, grown, turned, late_grow, move_dir,
                   spawned, ramp_base, menu, coasting, coast_ticks>>

NextRoundTrip ==
    \/ \E typed \in TypedNames, s \in ScoreInputs : LogSave(typed, s)
    \/ LogLoad

SpecRoundTrip == InitRoundTrip /\ [][NextRoundTrip]_vars

----------------------------------------------------------------------------
(* Claims about the Snake object, checked under SpecSnake. *)

\* C1: a move() with grow_pending = 0 keeps the body's length; a move() made
\* while growth requested so far (grown) exceeds the growth applied so far
\* (length - 1) lengthens the body by exactly 1, every other move() by 0: N
\* requested segments arrive one per move over the next N moves, never more
\* than one per move, and no later move adds any.
C1_LengthUnderMove ==
    [][(op' = "move") =>
          /\ Len(body') - Len(body) =
                 (IF grown > Len(body) - 1 THEN 1 ELSE 0)
          /\ (grow_pending = 0 => Len(body') = Len(body))
          /\ Len(body') <= 1 + grown]_vars

\* C1 witness: growth requested before the first move, then three moves: the
\* first two lengthened the body, the third did not.
C1_Witness ==
    /\ op = "move" /\ ~late_grow /\ grown = 2 /\ moves = 3
    /\ Len(body) = 3 /\ grow_pending = 0

\* The body of a snake that started at s, never turned, moved m times and has
\* length n.
StraightBody(s, m, n) == [i \in 1..n |-> <<s[1] + m - (i - 1), s[2]>>]

\* C2: move() puts head + direction in front of the body, keeping every cell
\* (and decrementing grow_pending) when grow_pending > 0 and dropping the last
\* cell when grow_pending = 0, so the body stays head-first. A length-1 snake
\* at (x,y) heading (1,0) has body [(x+k,y)] after k moves without growth, and
\* body [(x+g,y),...,(x,y)] after grow(g) followed by g moves.
C2_MoveBody ==
    /\ [][(op' = "move") =>
             /\ body'[1] = Add(body[1], direction)
             /\ IF grow_pending > 0
                THEN /\ Tail(body') = body
                     /\ grow_pending' = grow_pending - 1
                ELSE /\ Tail(body') = SubSeq(body, 1, Len(body) - 1)
                     /\ grow_pending' = 0]_vars
    /\ []((~turned /\ grown = 0) =>
             body = <<<<start[1] + moves, start[2]>>>>)
    /\ []((~turned /\ ~late_grow /\ moves = grown) =>
             body = StraightBody(start, grown, grown + 1))

\* C2 witness: the scenario of the tests: a snake built at (5,5), grow(3),
\* three moves.
C2_Witness ==
    /\ op = "move" /\ start = <<5, 5>> /\ ~late_grow /\ grown = 3 /\ moves = 3
    /\ body = <<<<8, 5>>, <<7, 5>>, <<6, 5>>, <<5, 5>>>>

\* C3: change_direction with the exact inverse of the current direction
\* changes neither the heading nor the body nor grow_pending, and a move()
\* that follows it advances the head by that (prior) direction.
C3_InverseRejected ==
    [][/\ (op' = "change_direction" /\ arg' = Neg(direction)) =>
              UNCHANGED <<direction, body, grow_pending>>
       /\ (op = "change_direction" /\ arg = Neg(direction) /\ op' = "move") =>
              body'[1] = Add(body[1], direction)]_vars

\* C3 witness: a snake that has turned and grown, right after a call with the
\* inverse of its heading.
C3_Witness ==
    /\ op = "change_direction" /\ arg = Neg(direction)
    /\ turned /\ Len(body) > 1

\* C5: check_self_collision() returns TRUE exactly when the head cell is one
\* of the cells after the head, FALSE for a body of length 1, and changes
\* nothing of the snake.
C5_SelfCollision ==
    [][(op' = "check_self_collision") =>
          /\ result' = (body[1] \in {body[i] : i \in 2..Len(body)})
          /\ (Len(body) = 1 => result' = FALSE)
          /\ UNCHANGED <<body, direction, grow_pending>>]_vars

\* C5 witness: a check that found the head on the body.
C5_Witness ==
    /\ op = "check_self_collision" /\ result = TRUE /\ Len(body) >= 3

----------------------------------------------------------------------------
(* Claims about Apple.spawn_random, checked under SpecApple. *)

InGrid(c) == 0 <= c[1] /\ c[1] < cols /\ 0 <= c[2] /\ c[2] < rows
SomeCellFree ==
    \E x \in 0..(cols - 1) : \E y \in 0..(rows - 1) :
        <<x, y>> \notin forbidden_cells

\* C6: with cols, rows >= 1 and some grid cell not forbidden, the cell
\* spawn_random returns is inside the grid and not forbidden, whatever the
\* random choice.
C6_SpawnAvoidsForbidden ==
    (op = "spawn_random" /\ SomeCellFree) =>
        (InGrid(apple) /\ apple \notin forbidden_cells)

\* C6 witness: a spawn on a 2 x 2 grid of which two cells are forbidden.
C6_Witness ==
    /\ op = "spawn_random" /\ cols = 2 /\ rows = 2
    /\ Cardinality(forbidden_cells) = 2 /\ SomeCellFree

\* C7: on a grid of which every cell is forbidden, spawn_random returns (it
\* has exactly one possible result) and the apple is at (0,0).
C7_FullGridFallback ==
    (pc = "apple" /\ ~SomeCellFree) =>
        /\ spawn_random(cols, rows, forbidden_cells) = {<<0, 0>>}
        /\ (op = "spawn_random" => apple = <<0, 0>>)

\* C7 witness: a spawn on a 2 x 1 grid with both cells forbidden.
C7_Witness ==
    /\ op = "spawn_random" /\ cols = 2 /\ rows = 1 /\ ~SomeCellFree
    /\ apple = <<0, 0>>

----------------------------------------------------------------------------
(* Claims about a session, checked under Spec. *)

HeadOnBody(b) == b[1] \in {b[i] : i \in 2..Len(b)}
HeadOutside(b) ==
    b[1][1] < 0 \/ b[1][1] >= cols \/ b[1][2] < 0 \/ b[1][2] >= rows
BodyFillsGrid ==
    \A x \in 0..(cols - 1) : \A y \in 0..(rows - 1) : <<x, y>> \in Range(body)
\* A step that is the tick of a frame begun in the Playing state.
PlayingTick == op' = "tick" /\ ~game_over /\ ~paused

\* C4: whatever direction keys are handled between two consecutive moves, the
\* second move's direction is never the exact inverse of the first's, so the
\* head never steps onto its neck body[1] (here body[2]).
C4_NoInstantReversal ==
    [][(PlayingTick /\ move_dir # <<0, 0>>) =>
          /\ direction # Neg(move_dir)
          /\ (Len(body) >= 2 => body'[1] # body[2])]_vars

\* C8 as stated: at every (re)spawn the apple is on no body cell.
C8_SpawnNeverOnBody ==
    spawned => apple \notin Range(body)

\* C8 amended: at every (re)spawn made while some grid cell is free of the
\* body, the apple is inside the grid and on no body cell; when the body
\* fills the grid the apple is at (0,0).
C8_SpawnOffBodyUnlessFull ==
    spawned =>
        IF BodyFillsGrid THEN apple = <<0, 0>>
        ELSE InGrid(apple) /\ apple \notin Range(body)

\* C8 witness: a respawn after the second eaten apple.
C8_Witness ==
    /\ spawned /\ op = "tick" /\ score = 2 /\ Len(body) = 2
    /\ apple \notin Range(body)

\* C9: a tick in the Playing state sets game_over exactly when, after the
\* move, the head is off the grid or on a non-head body cell; otherwise the
\* session stays Playing.
C9_GameOverIff ==
    [][PlayingTick =>
          /\ game_over' = (HeadOutside(body') \/ HeadOnBody(body'))
          /\ paused' = FALSE]_vars

\* C9 witness: a game over by self-collision, the head inside the grid.
C9_Witness ==
    /\ op = "tick" /\ game_over /\ InGrid(body[1]) /\ HeadOnBody(body)
    /\ score < cols * rows

\* C10: in a Playing tick that ends not game over with the head on the apple,
\* score increases by 1, grow_pending is one more than move() left it, and
\* the apple is a spawn_random result for the body as forbidden cells; in
\* every other tick score and apple are unchanged.
C10_EatApple ==
    [][(op' = "tick") =>
          IF PlayingTick /\ ~game_over' /\ body'[1] = apple
          THEN /\ score' = score + 1
               /\ grow_pending' =
                      (IF grow_pending > 0 THEN grow_pending - 1 ELSE 0) + 1
               /\ apple' \in spawn_random(cols, rows, Range(body'))
          ELSE /\ score' = score
               /\ apple' = apple]_vars

\* C10 witness: the tick that ate the third apple.
C10_Witness ==
    /\ op = "tick" /\ spawned /\ score = 3 /\ grow_pending = 1
    /\ Len(body) = 3 /\ ~game_over

\* C11: the session's record is written exactly once, by the tick that sets
\* game_over, with the session's player name and final score, and by no other
\* step; a session that ends (ESC, quit) with game_over false has written
\* none. (The log of Spec starts empty.)
C11_SavedOnceOnGameOver ==
    /\ [](Len(results) = (IF game_over THEN 1 ELSE 0))
    /\ [][IF ~game_over /\ game_over'
          THEN /\ op' = "tick"
               /\ Len(results') = Len(results) + 1
               /\ SubSeq(results', 1, Len(results)) = results
               /\ LET parts == split(results'[Len(results')])
                  IN  /\ Len(parts) = 3
                      /\ parts[2] = player_name
                      /\ is_int(parts[3]) /\ int(parts[3]) = score'
          ELSE results' = results]_vars

\* C11 witness: a session that went game over with score 2 and has returned
\* to the menu, its one record written.
C11_Witness ==
    /\ pc = "menu" /\ game_over /\ score = 2 /\ Len(results) = 1

\* C15: the pause key toggles paused while the session is not game over and
\* does nothing after; no other step changes paused; a step taken while
\* paused (a frame's tick, a direction key) changes none of body, heading,
\* grow_pending, apple and score.
C15_Pause ==
    [][/\ (op' = "key_pause") =>
              paused' = (IF game_over THEN paused ELSE ~paused)
       /\ (op' # "key_pause") => paused' = paused
       /\ paused => UNCHANGED <<body, direction, grow_pending, apple, score>>
      ]_vars

\* C15 witness: a direction key handled while paused, the snake two cells long
\* and heading down, which only the key for up would not change.
C15_Witness ==
    /\ paused /\ op = "key_direction" /\ Len(body) = 2 /\ ~game_over
    /\ direction = <<0, 1>>

\* C16: once game_over is true it stays true and body, heading, apple, score
\* and paused never change; a restart click is taken only when game_over;
\* the session ends only by that restart or by quitting (run_game returning
\* False, or sys.exit).
C16_GameOverTerminal ==
    [][/\ game_over =>
              (game_over' /\ UNCHANGED <<body, direction, apple, score, paused>>)
       /\ (op' = "click_restart") => game_over
       /\ (pc = "game" /\ pc' # "game") =>
              \/ pc' = "restart" /\ game_over /\ op' = "click_restart"
              \/ pc' = "menu" /\ ~running /\ op' = "tick"
              \/ pc' = "exit" /\ op' = "quit"]_vars

\* C16 witness: a restart click on the game-over screen.
C16_Witness ==
    /\ pc = "restart" /\ game_over /\ score >= 1 /\ op = "click_restart"

\* C20: after a tick that leaves game_over false every body cell is inside
\* the grid; the head is outside the grid only when game_over; every non-head
\* body cell is inside the grid in every state.
C20_BodyInBounds ==
    /\ (op = "tick" /\ ~game_over) => \A i \in 1..Len(body) : InGrid(body[i])
    /\ ~InGrid(body[1]) => game_over
    /\ \A i \in 2..Len(body) : InGrid(body[i])

\* C20 witness: a snake of three cells whose head has left the grid.
C20_Witness ==
    /\ game_over /\ ~InGrid(body[1]) /\ Len(body) = 3

----------------------------------------------------------------------------
(* Further claims about a session, checked under Spec. *)

\* C21: in a session the heading is one of the four unit vectors and every
\* two consecutive body cells differ by exactly one unit vector.
C21_BodyContiguous ==
    /\ direction \in KeyDirections
    /\ \A i \in 1..(Len(body) - 1) :
           <<body[i][1] - body[i + 1][1], body[i][2] - body[i + 1][2]>>
               \in KeyDirections

\* C21 witness: a snake of four cells with a bend in it.
C21_Witness ==
    /\ pc = "game" /\ Len(body) = 4
    /\ body[1][1] # body[3][1] /\ body[1][2] # body[3][2]

\* C24: at the end of every frame len(body) + grow_pending = score + 1 and
\* grow_pending is 0 or 1.
C24_ScoreLength ==
    (op = "tick") =>
        /\ Len(body) + grow_pending = score + 1
        /\ grow_pending \in {0, 1}

\* C24 witness: the frame in which the third apple is eaten, the growth of
\* the second one applied by the same move.
C24_Witness ==
    /\ op = "tick" /\ spawned /\ score = 3 /\ grow_pending = 1
    /\ Len(body) = 3

\* C25: at the end of every frame with game_over false the body cells are
\* pairwise distinct.
C25_NoOverlap ==
    (op = "tick" /\ ~game_over) =>
        \A i, j \in 1..Len(body) : (i # j) => body[i] # body[j]

\* C25 witness: a frame ends in game over with the head on a body cell, and
\* so with a cell held twice.
C25_Witness ==
    /\ op = "tick" /\ game_over /\ ~HeadOutside(body) /\ HeadOnBody(body)
    /\ Len(body) >= 5

\* C26: once the body covers every grid cell the next tick begun in Playing
\* sets game_over, whatever the heading, and no step eats an apple or raises
\* the score.
C26_FullBoard ==
    [][BodyFillsGrid =>
          /\ PlayingTick => game_over'
          /\ score' = score
          /\ apple' = apple]_vars

\* C26 witness: the game over that follows a full board, the apple at its
\* fallback cell (0,0) under the body.
C26_Witness ==
    /\ op = "tick" /\ game_over /\ BodyFillsGrid
    /\ score = cols * rows /\ Len(body) = cols * rows + 1
    /\ apple = <<0, 0>> /\ ~HeadOutside(body)

----------------------------------------------------------------------------
(* Claims about main's loop and about sessions without steering, checked   *)
(* under SpecMain and SpecCoast.                                           *)

\* C23: every call of run_game, the first and every later one, begins with
\* a snake of one cell at (cols div 2, rows div 2) heading (1,0) with
\* grow_pending 0, score 0, paused and game_over false, and the speed and
\* speed-up interval of the menu's base speed and difficulty: nothing of an
\* earlier session's score, snake or speed is carried over.
C23_FreshSession ==
    (op \in {"init", "run_game"}) =>
        /\ body = << <<cols \div 2, rows \div 2>> >>
        /\ direction = <<1, 0>>
        /\ grow_pending = 0
        /\ score = 0 /\ ~paused /\ ~game_over
        /\ speed = initial_speed(menu[2], menu[1])
        /\ apples_per_speedup = initial_apples_per_speedup(menu[2])

\* C23 witness: a "hard" session restarted after one that ate four apples
\* and so ended at speed 16.
C23_Witness ==
    /\ op = "run_game" /\ menu = <<menu_min_speed, "hard">>
    /\ speed = 15 /\ best_score = 4 /\ Len(results) = 1

\* C27: once no direction or pause key arrives, at most max(cols, rows)
\* ticks are begun in Playing and the last of that many ends in game over;
\* with no input at all from run_game's first frame, the session is game
\* over after exactly cols - cols div 2 ticks, and not before.
C27_CoastEnds ==
    /\ coast_ticks <= Max(cols, rows)
    /\ (coasting # "no" /\ coast_ticks = Max(cols, rows)) => game_over
    /\ (coasting = "initial") =>
           /\ coast_ticks <= cols - (cols \div 2)
           /\ game_over <=> (coast_ticks = cols - (cols \div 2))

\* C27 witness: a snake left alone that crossed the whole grid, max(cols,
\* rows) ticks, before it went over the edge.
C27_Witness ==
    /\ coasting = "later" /\ coast_ticks = Max(cols, rows) /\ game_over
    /\ HeadOutside(body) /\ score >= 1

----------------------------------------------------------------------------
(* Claims about the score log, checked under SpecLoad and SpecRoundTrip. *)

SetMax(S) == CHOOSE m \in S : \A x \in S : x <= m

\* The third fields, as integers, of the lines that have exactly three fields
\* of which the third is an integer.
WellFormedScores(lines) ==
    {int(split(strip(lines[i]))[3]) :
        i \in {j \in 1..Len(lines) :
                 LET parts == split(strip(lines[j]))
                 IN  Len(parts) = 3 /\ is_int(parts[3])}}

\* C12: load_best_score() returns the greatest third-field integer
\* of the well-formed lines (exactly three fields, the third an integer),
\* every other line being skipped, and 0 for a file with no such line.
C12_MaxOverWellFormed ==
    (op = "load") =>
        best_score = (IF WellFormedScores(results) = {} THEN 0
                      ELSE SetMax(WellFormedScores(results)))

\* C13: after any save_result calls with scores >= 0 and names the menu can
\* return, load_best_score() returns the greatest of the scores appended.
C13_RoundTrip ==
    (op = "load" /\ pc = "log") => best_score = SetMax(appended \cup {0})

----------------------------------------------------------------------------
(* Claims about the session's speed, checked under SpecSpeed. *)

\* C14: for every base speed of the menu and every difficulty the speed
\* stays within min_speed..max_speed in every state, whatever the speed keys
\* and the eaten apples do, and a speed key changes the speed by at most 1.
C14_SpeedBounds ==
    /\ [](min_speed <= speed /\ speed <= max_speed)
    /\ [][(op' \in {"key_plus", "key_minus"}) =>
              (speed' - speed \in {-1, 0, 1})]_vars

\* C14 witness: the apple that would speed the game up is eaten at the
\* greatest speed, which the + key alone can have reached.
C14_Witness ==
    /\ op = "tick" /\ spawned /\ score = 4 /\ apples_per_speedup = 4
    /\ speed = max_speed

\* C17: a tick in which an apple is eaten and the new score is a multiple of
\* apples_per_speedup sets speed to min(max_speed, speed + 1), every other
\* tick leaves speed alone; and while no speed key has been pressed, speed is
\* min(30, initial speed + floor(score / apples_per_speedup)).
C17_SpeedRamp ==
    /\ [][(op' = "tick") =>
              speed' = (IF score' = score + 1 /\ score' % apples_per_speedup = 0
                        THEN Min(max_speed, speed + 1)
                        ELSE speed)]_vars
    /\ []((ramp_base # 0) =>
              speed = Min(30, ramp_base + (score \div apples_per_speedup)))

\* C17 witness: the fourth apple of a "hard" session in which no speed key
\* was pressed, eaten at one above the initial speed of 25.
C17_Witness ==
    /\ op = "tick" /\ spawned /\ score = 4 /\ apples_per_speedup = 4
    /\ ramp_base = 25 /\ speed = 26

\* C18: run_game starts "easy" at max(5, base_speed) with interval 7, "hard"
\* at max(15, base_speed) with interval 4 and "normal" at base_speed with
\* interval 5: never below the preset's floor, never below the menu's speed.
C18_DifficultyPresets ==
    (op = "init") =>
        LET base_speed == arg[1]
            difficulty == difficulties[arg[2]]
        IN  /\ (difficulty = "easy") =>
                   speed = Max(5, base_speed) /\ apples_per_speedup = 7
                   /\ speed >= 5
            /\ (difficulty = "hard") =>
                   speed = Max(15, base_speed) /\ apples_per_speedup = 4
                   /\ speed >= 15
            /\ (difficulty = "normal") =>
                   speed = base_speed /\ apples_per_speedup = 5
            /\ speed >= base_speed

\* C18 witness: "hard" chosen with the menu's lowest speed starts at 15.
C18_Witness ==
    /\ op = "init" /\ arg = <<menu_min_speed, DifficultyIndex("hard")>>
    /\ speed = 15 /\ apples_per_speedup = 4

----------------------------------------------------------------------------
(* Further claims about the Snake object, checked under SpecSnake. *)

\* C19: after construction and after any calls of move(), grow(amount >= 0)
\* and change_direction the body has at least one cell and grow_pending >= 0.
C19_LengthAtLeastOne ==
    Len(body) >= 1 /\ grow_pending >= 0

\* C22: change_direction(dx, dy) keeps the heading when (dx, dy) is the zero
\* vector, sets it to exactly (dx, dy) for every other input that is not the
\* exact inverse of the current heading, and leaves body and grow_pending
\* alone in every case.
C22_ChangeDirection ==
    [][(op' = "change_direction") =>
          /\ (arg' = <<0, 0>>) => direction' = direction
          /\ (arg' # <<0, 0>> /\ arg' # Neg(direction)) => direction' = arg'
          /\ UNCHANGED <<body, grow_pending>>]_vars

\* C22 witness: the diagonal (1,1) taken as the heading of a snake of two
\* cells that was heading (0,1).
C22_Witness ==
    /\ op = "change_direction" /\ arg = <<1, 1>> /\ direction = <<1, 1>>
    /\ Len(body) = 2 /\ body[1] = Add(body[2], <<0, 1>>)

\* C19 witness: a snake that has grown, turned and moved, all growth applied.
C19_Witness ==
    /\ pc = "snake" /\ op = "move" /\ turned /\ grown = 2 /\ moves = 3
    /\ grow_pending = 0

====
